---- MODULE Spec2Model ----
(***************************************************************************)
(* AutoHedge: the sequential multi-agent trading pipeline of               *)
(* src/autohedge/main.py (AutoHedge.run and the four stage adapters) and   *)
(* the director of src/autohedge/workers.py with its Yahoo market-data     *)
(* gateway (src/autohedge/tools/yahoo_api.py).                             *)
(*                                                                         *)
(* A text is a sequence of tokens, so that Python's string concatenation   *)
(* (stock + market_data) is \o and the empty string is << >>.              *)
(***************************************************************************)
EXTENDS Naturals, Sequences, FiniteSets, TLC

VARIABLES
    stocks,        \* self.stocks: the ticker list given to AutoHedge.__init__
    output_type,   \* self.output_type
    name,          \* self.name
    description,   \* self.description
    logs,          \* self.logs (AutoHedgeOutputMain): [task, logs]
    conversation,  \* self.conversation: the ledger, a sequence of [role, content]
    tickr,         \* self.director.tickr: the stocks of the last TickrAgent built
    pc,            \* the statement of run() that executes next
    frame,         \* the arguments and locals of the run() in progress
    outcome,       \* "none" (never run), "running", "returned", "raised"
    error,         \* the exception class run() raised to its caller
    result,        \* the value run() returned to its caller
    calls,         \* history: the external invocations of the current run
    appends,       \* history: number of Conversation.add calls since construction
    runs,          \* history: number of run() invocations since construction
    base,          \* history: the ledger's length when the current run started
    raised,        \* history: the exception raised inside the try block of the current run
    gt,            \* a direct call of workers.TradingDirector.generate_thesis
    direct,        \* a direct call of an adapter operation of main.py
    trade,         \* a call of execute_trade of tools/ultra_tools.py
    recent,        \* cli.py: the recent-tasks file and the last _append_recent
    repl           \* cli.py: the loop of run_repl

vars == <<stocks, output_type, name, description, logs, conversation, tickr, pc,
          frame, outcome, error, result, calls, appends, runs, base, raised, gt,
          direct, trade, recent, repl>>

\* the state of cli.py
cli == <<recent, repl>>

\* the state of the AutoHedge object of main.py and of its run()
hedge == <<stocks, output_type, name, description, logs, conversation, tickr, pc,
           frame, outcome, error, result, calls, appends, runs, base, raised>>

config == <<stocks, output_type, name, description, logs>>

-----------------------------------------------------------------------------
(* Bounds of the model *)

MaxStocks == 2
MaxRuns == 2

-----------------------------------------------------------------------------
(* Values *)

Tickers == {"AAPL", "BADTICKER"}
Tasks == {<<"Analyze NVDA">>, <<"Analyze oil">>}
\* what a reasoning stage may return: any text, the empty one included
Replies == {<< >>, <<"reply">>}
\* what the market-data agent may return
MarketData == {<<"md">>, << >>}
\* what a reasoning stage or the market-data agent may raise
ExternalErrors == {"StageError", "DataUnavailableError"}
OutputTypes == {"list", "dict", "str", "json"}

None == <<"<None>">>
Unset == <<"<unset>">>

\* the outcome of one blocking external call: a value, or an exception
Outcomes(values) ==
    [ok : {TRUE}, val : values] \cup [ok : {FALSE}, val : ExternalErrors]

SeqsUpTo(S, n) == UNION {[1..k -> S] : k \in 0..n}

Txt(s) == <<s>>

IsPrefix(s, t) == Len(s) <= Len(t) /\ SubSeq(t, 1, Len(s)) = s

-----------------------------------------------------------------------------
(* The adapter objects and their attributes *)

Adapters == {"director", "quant", "risk", "execution"}

\* the swarms Agent each adapter wraps, with the agent_name it was built with
AgentOf(adapter) ==
    CASE adapter = "director"  -> [attr |-> "director_agent", agent_name |-> "Trading-Director"]
      [] adapter = "quant"     -> [attr |-> "quant_agent", agent_name |-> "Quant-Analyst"]
      [] adapter = "risk"      -> [attr |-> "risk_agent", agent_name |-> "Risk-Manager"]
      [] adapter = "execution" -> [attr |-> "execution_agent", agent_name |-> "Execution-Agent"]

\* the instance attributes the adapter classes of main.py set
Attrs(adapter) ==
    CASE adapter = "director"  ->
            {"director_agent"} \cup (IF tickr = Unset THEN {} ELSE {"tickr"})
      [] adapter = "quant"     -> {"output_dir", "quant_agent"}
      [] adapter = "risk"      -> {"risk_agent"}
      [] adapter = "execution" -> {"execution_agent"}

HasAttr(adapter, attr) == attr \in Attrs(adapter)

-----------------------------------------------------------------------------
(* The body of the loop of run(), statement by statement *)

Body == <<"tickr", "thesis", "add_thesis", "analyze", "add_analysis",
          "assess_risk", "add_risk", "generate_order", "add_order",
          "make_decision", "add_decision">>

StageSteps == {"thesis", "analyze", "assess_risk", "generate_order", "make_decision"}
AddSteps == {"add_thesis", "add_analysis", "add_risk", "add_order", "add_decision"}

IndexOf(step) == CHOOSE k \in 1..Len(Body) : Body[k] = step

\* the statement after `step`; after the last one, the loop header
After(step) ==
    IF IndexOf(step) = Len(Body) THEN "for" ELSE Body[IndexOf(step) + 1]

\* the adapter whose operation a statement calls or whose agent_name it reads
AdapterOf(step) ==
    CASE step \in {"tickr", "thesis", "add_thesis", "make_decision", "add_decision"}
            -> "director"
      [] step \in {"analyze", "add_analysis"} -> "quant"
      [] step \in {"assess_risk", "add_risk"} -> "risk"
      [] step \in {"generate_order", "add_order"} -> "execution"

Stock(f) == Txt(stocks[f.i])

\* the prompt the adapter formats for its reasoning stage
Prompt(step, f) ==
    CASE step = "thesis" ->
            [template |-> "DIRECTOR_THESIS_PROMPT", task |-> f.task,
             stock |-> Stock(f), market_data |-> f.gt_market_data]
      [] step = "analyze" ->
            [template |-> "QUANT_ANALYSIS_PROMPT",
             stock |-> Stock(f) \o f.market_data, thesis |-> f.thesis]
      [] step = "assess_risk" ->
            [template |-> "RISK_ASSESSMENT_PROMPT",
             stock |-> Stock(f) \o f.market_data, thesis |-> f.thesis,
             quant_analysis |-> f.analysis]
      [] step = "generate_order" ->
            [template |-> "EXECUTION_ORDER_PROMPT", stock |-> Stock(f),
             thesis |-> f.thesis, risk_assessment |-> f.risk_assessment]
      [] step = "make_decision" ->
            [template |-> "DIRECTOR_DECISION_PROMPT", thesis |-> f.thesis,
             task |-> f.order \o f.market_data \o f.risk_assessment]

\* the locals the stage's return value is assigned to
Assign(step, f, reply) ==
    CASE step = "thesis" ->
            [f EXCEPT !.thesis = reply, !.market_data = f.gt_market_data]
      [] step = "analyze" -> [f EXCEPT !.analysis = reply]
      [] step = "assess_risk" -> [f EXCEPT !.risk_assessment = reply]
      [] step = "generate_order" -> [f EXCEPT !.order = reply]
      [] step = "make_decision" -> [f EXCEPT !.decision = reply]

\* the content argument of each conversation.add
Content(step, f) ==
    CASE step = "add_thesis" ->
            <<"Stock: ">> \o Stock(f) \o <<"\nMarket Data: ">> \o f.market_data
                \o <<"\nThesis: ">> \o f.thesis
      [] step = "add_analysis" -> f.analysis
      [] step = "add_risk" -> f.risk_assessment
      [] step = "add_order" -> f.order
      [] step = "add_decision" -> f.decision

NewFrame(t) ==
    [task |-> t, i |-> 0, gt_market_data |-> Unset, market_data |-> Unset,
     thesis |-> Unset, analysis |-> Unset, risk_assessment |-> Unset,
     order |-> Unset, decision |-> Unset]

-----------------------------------------------------------------------------
(* The ledger (swarms Conversation) *)

\* Conversation.add(role, content)
Add(conv, role, content) == Append(conv, [role |-> role, content |-> content])

Line(m) == <<m.role>> \o <<": ">> \o m.content

RECURSIVE Join(_)
Join(lines) ==
    IF lines = << >> THEN << >>
    ELSE IF Len(lines) = 1 THEN lines[1]
    ELSE lines[1] \o <<"\n\n">> \o Join(Tail(lines))

return_messages_as_list(conv) == [k \in 1..Len(conv) |-> Line(conv[k])]
return_messages_as_dictionary(conv) == conv
return_history_as_string(conv) == Join(return_messages_as_list(conv))

\* a run() that returns the list rendering whatever the mode
RenderAlwaysList(conv) ==
    [mode |-> "list", value |-> return_messages_as_list(conv)]

\* the if/elif chain that ends run(): no branch matches, the function returns None
Render(conv) ==
    CASE output_type = "list" -> [mode |-> "list", value |-> return_messages_as_list(conv)]
      [] output_type = "dict" -> [mode |-> "dict", value |-> return_messages_as_dictionary(conv)]
      [] output_type = "str" -> [mode |-> "str", value |-> return_history_as_string(conv)]
      [] OTHER -> [mode |-> "None", value |-> None]

NoResult == [mode |-> "no result", value |-> None]

-----------------------------------------------------------------------------
(* workers.py: the director whose market data comes from Yahoo Finance *)

\* the stock argument of generate_thesis: a symbol, one to normalise, a blank, ""
Symbols == {"AAPL", " aapl ", " ", ""}

\* ticker.strip()
Strip(s) == CASE s = " aapl " -> "aapl" [] s = " " -> "" [] OTHER -> s
\* str.upper()
Upper(s) == CASE s = "aapl" -> "AAPL" [] OTHER -> s

\* what yfinance does during one get_all_stock_data: Ticker.history returns
\* rows, returns an empty frame or raises; Ticker.info returns, raises one of
\* _RATE_LIMIT_EXCEPTIONS or raises something else
Yahoo == [history : {"rows", "empty", "raises"},
          info : {"ok", "rate_limit", "raises", "raises_blank"}]

EmptyJson == <<"{}">>

\* _safe_info: (info, error message or None)
safe_info(y) ==
    CASE y.info = "ok" -> [info |-> "info", err |-> None]
      [] y.info = "rate_limit" ->
            [info |-> "{}",
             err |-> <<"Rate limited or invalid response from Yahoo (429).">>]
      [] y.info = "raises" -> [info |-> "{}", err |-> <<"str(e)">>]
      [] y.info = "raises_blank" -> [info |-> "{}", err |-> << >>]

\* _df_to_json_serializable(hist): None for an empty frame
df_to_json_serializable(y) == IF y.history = "rows" THEN <<"rows">> ELSE None

\* get_all_stock_data(ticker, include_history=True): the JSON text returned, or
\* the exception that leaves the function
get_all_stock_data(ticker, y) ==
    IF ticker = "" \/ Strip(ticker) = ""
    THEN [ok |-> TRUE, val |-> EmptyJson]
    ELSE IF y.history = "raises"
    THEN [ok |-> TRUE, val |-> EmptyJson]
    ELSE LET symbol == Upper(Strip(ticker))
             history_serialized == df_to_json_serializable(y)
             i == safe_info(y)
             warning == IF i.err # None /\ i.err # << >>
                        THEN <<"_warning:">> \o i.err ELSE << >>
             quote == <<"quote:{", symbol, i.info>> \o warning
                        \o (IF history_serialized # None
                            THEN <<"history:">> \o history_serialized ELSE << >>)
                        \o <<"}">>
             summary == <<"quote_summary:{", symbol, i.info>> \o warning
                        \o <<"financials", "}">>
         IN [ok |-> TRUE,
             val |-> <<"{", symbol>> \o quote \o summary
                        \o <<"history:">> \o history_serialized \o <<"}">>]

\* _agent_context(task): the task, or "(none)" for an empty one
agent_context(task) == IF task = << >> \/ task = None THEN <<"(none)">> ELSE task

\* no fetch was made yet
NoYahoo == [history |-> "none", info |-> "none"]

\* the operations of the adapters
Operations == {"generate_thesis", "analyze", "assess_risk", "generate_order",
               "make_decision"}

\* the arguments of a direct call: task, stock, thesis and the third
\* positional text (quant_analysis, risk_assessment)
Arguments == [task : Tasks, stock : {<<"AAPL">>}, thesis : Replies,
              extra : Replies]

\* the prompt an operation formats from its arguments
Format(op, a, market_data) ==
    CASE op = "generate_thesis" ->
            [template |-> "DIRECTOR_THESIS_PROMPT", task |-> a.task,
             stock |-> a.stock, market_data |-> market_data]
      [] op = "analyze" ->
            [template |-> "QUANT_ANALYSIS_PROMPT", stock |-> a.stock,
             thesis |-> a.thesis]
      [] op = "assess_risk" ->
            [template |-> "RISK_ASSESSMENT_PROMPT", stock |-> a.stock,
             thesis |-> a.thesis, quant_analysis |-> a.extra]
      [] op = "generate_order" ->
            [template |-> "EXECUTION_ORDER_PROMPT", stock |-> a.stock,
             thesis |-> a.thesis, risk_assessment |-> a.extra]
      [] op = "make_decision" ->
            [template |-> "DIRECTOR_DECISION_PROMPT", thesis |-> a.thesis,
             task |-> a.task]

\* no adapter operation was called yet
DirectIdle ==
    [op |-> "none", pc |-> "idle", args |-> None, tickr |-> Unset,
     fetch |-> "none", market_data |-> Unset, prompts |-> << >>,
     reply |-> Unset, outcome |-> "none", error |-> "none", ret |-> << >>]

GtIdle ==
    [pc |-> "idle", task |-> None, stock |-> "", yahoo |-> NoYahoo,
     market_data |-> Unset, prompts |-> << >>, outcome |-> "none",
     error |-> "none", ret |-> None]

-----------------------------------------------------------------------------
(* execute_trade (tools/ultra_tools.py) *)

\* longest unsigned_transaction argument, in pieces
MaxTx == 2

\* the pieces of an unsigned_transaction argument: "T" the base64 text of a
\* versioned transaction, "G" the base64 text of other bytes, "x" a base64
\* group cut short, "!" a character outside the base64 alphabet, " " white space
Pieces == {"T", "G", "x", "!", " "}

Transactions == UNION {[1..k -> Pieces] : k \in 0..MaxTx}

RequestIds == {<< >>, <<" ">>, <<"id">>, <<" ", "id">>}

\* SOLANA_PRIVATE_KEY in the environment
PrivateKeys == {"missing", "blank", "invalid", "valid"}

RECURSIVE LStrip(_)
LStrip(s) == IF s # << >> /\ Head(s) = " " THEN LStrip(Tail(s)) ELSE s

RECURSIVE RStrip(_)
RStrip(s) ==
    IF s # << >> /\ s[Len(s)] = " " THEN RStrip(SubSeq(s, 1, Len(s) - 1)) ELSE s

\* str.strip()
StripText(s) == RStrip(LStrip(s))

\* not s or not s.strip()
Blank(s) == s = << >> \/ StripText(s) = << >>

\* _get_keypair(): the keypair, or the message of its ValueError
get_keypair(key) ==
    IF key \in {"missing", "blank"}
    THEN [ok |-> FALSE, val |-> "SOLANA_PRIVATE_KEY is required"]
    ELSE IF key = "invalid"
    THEN [ok |-> FALSE, val |-> "Invalid SOLANA_PRIVATE_KEY"]
    ELSE [ok |-> TRUE, val |-> "wallet"]

\* base64.b64decode(s) with validate=False: characters outside the alphabet
\* are discarded, then a group cut short is a padding error
b64decode(s) ==
    LET kept == SelectSeq(s, LAMBDA c : c \notin {"!", " "})
    IN IF \E k \in 1..Len(kept) : kept[k] = "x"
       THEN [ok |-> FALSE, val |-> <<"binascii.Error">>]
       ELSE [ok |-> TRUE, val |-> kept]

\* VersionedTransaction.from_bytes(tx_bytes)
from_bytes(bytes) ==
    IF bytes = <<"T">> THEN [ok |-> TRUE, val |-> "message"]
    ELSE [ok |-> FALSE, val |-> "error"]

\* the body of execute_trade up to the request: the JSON payload, or the
\* message of the ValueError raised
payload(tx, request_id, key) ==
    IF Blank(tx)
    THEN [ok |-> FALSE, val |-> "unsigned_transaction is required"]
    ELSE IF Blank(request_id)
    THEN [ok |-> FALSE, val |-> "request_id is required"]
    ELSE IF ~get_keypair(key).ok
    THEN get_keypair(key)
    ELSE IF ~b64decode(StripText(tx)).ok
    THEN [ok |-> FALSE,
          val |-> "unsigned_transaction is not valid base64"]
    ELSE IF ~from_bytes(b64decode(StripText(tx)).val).ok
    THEN [ok |-> FALSE,
          val |-> "unsigned_transaction is not a valid versioned transaction"]
    ELSE [ok |-> TRUE,
          val |-> [signedTransaction |->
                       [message |-> from_bytes(b64decode(StripText(tx)).val).val,
                        signatures |-> <<get_keypair(key).val>>],
                   requestId |-> StripText(request_id)]]

NoError == [type |-> "none", msg |-> ""]

\* execute_trade was not called yet
TradeIdle ==
    [pc |-> "idle", tx |-> << >>, request_id |-> << >>, key |-> "missing",
     posts |-> << >>, outcome |-> "none", error |-> NoError]

-----------------------------------------------------------------------------
(* cli.py: the recent-tasks file and the REPL *)

MAX_RECENT == 5

\* the last n elements of a sequence: s[-n:]
LastN(s, n) == IF Len(s) <= n THEN s ELSE SubSeq(s, Len(s) - n + 1, Len(s))

\* text.strip() on the lines of a text: blank lines at both ends go
RECURSIVE DropBlankHead(_)
DropBlankHead(lines) ==
    IF lines # << >> /\ Blank(Head(lines)) THEN DropBlankHead(Tail(lines))
    ELSE lines

RECURSIVE DropBlankTail(_)
DropBlankTail(lines) ==
    IF lines # << >> /\ Blank(lines[Len(lines)])
    THEN DropBlankTail(SubSeq(lines, 1, Len(lines) - 1))
    ELSE lines

\* _get_recent_tasks(): the last MAX_RECENT lines of the stripped file, each
\* stripped, the blank ones left out
get_recent_tasks(file) ==
    LET lines == LastN(DropBlankTail(DropBlankHead(file)), MAX_RECENT)
        stripped == [k \in 1..Len(lines) |-> StripText(lines[k])]
    IN SelectSeq(stripped, LAMBDA ln : ln # << >>)

\* list.remove(x): the list without the first occurrence of x
Remove(list, x) ==
    LET k == CHOOSE j \in 1..Len(list) :
                 list[j] = x /\ \A h \in 1..(j - 1) : list[h] # x
    IN SubSeq(list, 1, k - 1) \o SubSeq(list, k + 1, Len(list))

\* an _append_recent that appends without looking for the task
append_always(file, task) ==
    LastN(Append(get_recent_tasks(file), task), MAX_RECENT)

\* _append_recent(task): the lines written to the file
append_recent(file, task) ==
    LET recent_tasks == get_recent_tasks(file)
        removed == IF \E k \in 1..Len(recent_tasks) : recent_tasks[k] = task
                   THEN Remove(recent_tasks, task) ELSE recent_tasks
    IN LastN(Append(removed, task), MAX_RECENT)

\* the file and the record of the call after _append_recent(task); when the
\* file cannot be written the exception is swallowed and the file stays
AppendRecent(r, task, written) ==
    [file |-> IF written THEN append_recent(r.file, task) ELSE r.file,
     stripped |-> r.stripped /\ StripText(task) = task,
     task |-> task,
     written |-> written]

\* no recent-tasks file yet, _append_recent never called
NoRecent == [file |-> << >>, stripped |-> TRUE, task |-> << >>, written |-> FALSE]

\* the tasks given to _append_recent: non-empty, single-line
RecentTasks == {<<"a">>, <<"b">>, <<"c">>, <<"d">>, <<"e">>, <<"f">>, <<" ", "a">>}

\* the lines typed at the prompt
Lines == {<< >>, <<" ">>, <<"quit">>, <<"EXIT">>, <<"q">>, <<"help">>, <<"?">>,
          <<"h">>, <<"a">>, <<" ", "b">>}

\* str.lower()
Lower(line) == [k \in 1..Len(line) |-> IF line[k] = "EXIT" THEN "exit" ELSE line[k]]

\* what run_repl takes a stripped line for
Kind(line) ==
    IF line = << >> THEN "blank"
    ELSE IF Lower(line) \in {<<"quit">>, <<"exit">>, <<"q">>} THEN "quit"
    ELSE IF Lower(line) \in {<<"help">>, <<"?">>, <<"h">>} THEN "help"
    ELSE "task"

\* what AutoHedge() and system.run(task=task) can do
RunOutcomes == {"constructor raises", "run raises", "run returns",
                "KeyboardInterrupt"}

\* run_repl after _welcome()
ReplStart ==
    [pc |-> "input", kind |-> "none", task |-> << >>, runs |-> "none",
     shown |-> "welcome", ended |-> "no"]

-----------------------------------------------------------------------------
(* The state after AutoHedge.__init__ *)

Init ==
    /\ stocks \in SeqsUpTo(Tickers, MaxStocks)
    /\ output_type \in OutputTypes
    /\ name = "autohedge"
    /\ description = "fully autonomous hedgefund"
    /\ logs = [task |-> << >>, logs |-> << >>]
    /\ conversation = << >>
    /\ tickr = Unset
    /\ pc = "none"
    /\ frame = NewFrame(None)
    /\ outcome = "none"
    /\ error = "none"
    /\ result = NoResult
    /\ calls = << >>
    /\ appends = 0
    /\ runs = 0
    /\ base = 0
    /\ raised = "none"
    /\ gt = GtIdle
    /\ direct = DirectIdle
    /\ trade = TradeIdle
    /\ recent = NoRecent
    /\ repl = ReplStart

-----------------------------------------------------------------------------
(* run() *)

\* a handler that raises an error of its own in place of the one it caught
ExceptWrapped(e) ==
    /\ outcome' = "raised"
    /\ error' = "RuntimeError"
    /\ pc' = "none"
    /\ result' = NoResult

\* a handler that logs the error and goes on with the next stock
ExceptContinue(e) ==
    /\ pc' = "for"
    /\ UNCHANGED <<outcome, error, result>>

\* the except clause of run(): log, then re-raise the exception as it is
Except(e) ==
    /\ outcome' = "raised"
    /\ error' = e
    /\ pc' = "none"
    /\ result' = NoResult

\* a run() that starts from a ledger of its own
RunFresh(t) ==
    /\ outcome # "running"
    /\ runs < MaxRuns
    /\ runs' = runs + 1
    /\ base' = 0
    /\ conversation' = Add(<< >>, "user", <<"Task: ">> \o t)
    /\ appends' = appends + 1
    /\ frame' = NewFrame(t)
    /\ calls' = << >>
    /\ outcome' = "running"
    /\ error' = "none"
    /\ result' = NoResult
    /\ pc' = "for"
    /\ raised' = "none"
    /\ UNCHANGED <<config, tickr, gt, direct, trade, cli>>

\* a run() that enters the loop without recording the task
RunSilent(t) ==
    /\ outcome # "running"
    /\ runs < MaxRuns
    /\ runs' = runs + 1
    /\ base' = Len(conversation)
    /\ frame' = NewFrame(t)
    /\ calls' = << >>
    /\ outcome' = "running"
    /\ error' = "none"
    /\ result' = NoResult
    /\ pc' = "for"
    /\ raised' = "none"
    /\ UNCHANGED <<config, tickr, gt, direct, trade, cli, conversation, appends>>

\* a run() that records its task in self.logs
RunLogged(t) ==
    /\ outcome # "running"
    /\ runs < MaxRuns
    /\ runs' = runs + 1
    /\ base' = Len(conversation)
    /\ conversation' = Add(conversation, "user", <<"Task: ">> \o t)
    /\ appends' = appends + 1
    /\ frame' = NewFrame(t)
    /\ calls' = << >>
    /\ outcome' = "running"
    /\ error' = "none"
    /\ result' = NoResult
    /\ pc' = "for"
    /\ raised' = "none"
    /\ logs' = [logs EXCEPT !.task = t]
    /\ UNCHANGED <<stocks, output_type, name, description, tickr, gt, direct,
                   trade, cli>>

\* run(task) is called: the user entry is added, then the loop starts
Run(t) ==
    /\ outcome # "running"
    /\ runs < MaxRuns
    /\ runs' = runs + 1
    /\ base' = Len(conversation)
    /\ conversation' = Add(conversation, "user", <<"Task: ">> \o t)
    /\ appends' = appends + 1
    /\ frame' = NewFrame(t)
    /\ calls' = << >>
    /\ outcome' = "running"
    /\ error' = "none"
    /\ result' = NoResult
    /\ pc' = "for"
    /\ raised' = "none"
    /\ UNCHANGED <<config, tickr, gt, direct, trade, cli>>

\* a run() that refuses an empty ticker list
ForStockStrict ==
    /\ outcome = "running"
    /\ pc = "for"
    /\ IF frame.i < Len(stocks)
       THEN /\ frame' = [frame EXCEPT !.i = frame.i + 1]
            /\ pc' = "tickr"
            /\ UNCHANGED <<outcome, error, result, raised>>
       ELSE IF stocks = << >>
       THEN /\ frame' = frame
            /\ raised' = "ValueError"
            /\ Except("ValueError")
       ELSE /\ frame' = frame
            /\ pc' = "return"
            /\ UNCHANGED <<outcome, error, result, raised>>
    /\ UNCHANGED <<config, conversation, tickr, calls, appends, runs, base,
                   gt, direct, trade, cli>>

\* for stock in self.stocks
ForStock ==
    /\ outcome = "running"
    /\ pc = "for"
    /\ IF frame.i < Len(stocks)
       THEN /\ frame' = [frame EXCEPT !.i = frame.i + 1]
            /\ pc' = "tickr"
       ELSE /\ frame' = frame
            /\ pc' = "return"
    /\ UNCHANGED <<config, conversation, tickr, outcome, error, result, calls,
                   appends, runs, base, raised, gt, direct, trade, cli>>

\* generate_thesis: a TickrAgent is built for the stock and run for its market data
TickrRun(r) ==
    /\ outcome = "running"
    /\ pc = "tickr"
    /\ tickr' = <<stocks[frame.i]>>
    /\ calls' = Append(calls, [step |-> "tickr", i |-> frame.i,
                               prompt |-> [task |-> frame.task, stock |-> Stock(frame)],
                               ok |-> r.ok, val |-> r.val])
    /\ IF r.ok
       THEN /\ frame' = [frame EXCEPT !.gt_market_data = r.val]
            /\ pc' = After("tickr")
            /\ UNCHANGED <<outcome, error, result, raised>>
       ELSE /\ frame' = frame
            /\ raised' = r.val
            /\ Except(r.val)
    /\ UNCHANGED <<config, conversation, appends, runs, base, gt, direct, trade, cli>>

\* an adapter formats its prompt and runs its reasoning stage once
AgentRun(r) ==
    /\ outcome = "running"
    /\ pc \in StageSteps
    /\ calls' = Append(calls, [step |-> pc, i |-> frame.i,
                               prompt |-> Prompt(pc, frame),
                               ok |-> r.ok, val |-> r.val])
    /\ IF r.ok
       THEN /\ frame' = Assign(pc, frame, r.val)
            /\ pc' = After(pc)
            /\ UNCHANGED <<outcome, error, result, raised>>
       ELSE /\ frame' = frame
            /\ raised' = r.val
            /\ Except(r.val)
    /\ UNCHANGED <<config, conversation, tickr, appends, runs, base, gt, direct, trade, cli>>

\* self.conversation.add(role=self.<adapter>.agent_name, content=...)
ConversationAdd ==
    /\ outcome = "running"
    /\ pc \in AddSteps
    /\ IF HasAttr(AdapterOf(pc), "agent_name")
       THEN /\ conversation' = Add(conversation, AgentOf(AdapterOf(pc)).agent_name,
                                   Content(pc, frame))
            /\ appends' = appends + 1
            /\ pc' = After(pc)
            /\ UNCHANGED <<outcome, error, result, raised>>
       ELSE /\ raised' = "AttributeError"
            /\ Except("AttributeError")
            /\ UNCHANGED <<conversation, appends>>
    /\ UNCHANGED <<config, tickr, frame, calls, runs, base, gt, direct, trade, cli>>

\* a run() that starts its loop again instead of returning
ReturnAgain ==
    /\ outcome = "running"
    /\ pc = "return"
    /\ pc' = "for"
    /\ frame' = [frame EXCEPT !.i = 0]
    /\ UNCHANGED <<config, conversation, tickr, outcome, result, error, calls,
                   appends, runs, base, raised, gt, direct, trade, cli>>

\* the loop is over: the ledger is rendered and returned
Return ==
    /\ outcome = "running"
    /\ pc = "return"
    /\ result' = Render(conversation)
    /\ outcome' = "returned"
    /\ pc' = "none"
    /\ UNCHANGED <<config, conversation, tickr, frame, error, calls, appends,
                   runs, base, raised, gt, direct, trade, cli>>

Next ==
    \/ \E t \in Tasks : Run(t)
    \/ ForStock
    \/ \E r \in Outcomes(MarketData) : TickrRun(r)
    \/ \E r \in Outcomes(Replies) : AgentRun(r)
    \/ ConversationAdd
    \/ Return

Spec == Init /\ [][Next]_vars

\* the statements of a run() in progress
Step ==
    \/ ForStock
    \/ \E r \in Outcomes(MarketData) : TickrRun(r)
    \/ \E r \in Outcomes(Replies) : AgentRun(r)
    \/ ConversationAdd
    \/ Return

\* the interpreter goes on to the next statement of run() once the current
\* one has returned or raised; whether run() is called again is up to the caller
SpecLive == Spec /\ WF_vars(Step)

-----------------------------------------------------------------------------
(* workers.TradingDirector.generate_thesis *)

\* generate_thesis(task, stock) is called on a director
GenerateThesis(t, s) ==
    /\ gt.outcome # "running"
    /\ gt' = [GtIdle EXCEPT !.pc = "fetch", !.task = t, !.stock = s,
                            !.outcome = "running"]
    /\ UNCHANGED <<hedge, direct, trade, cli>>

\* market_data = get_all_stock_data(stock, include_history=True)
GetAllStockData(y) ==
    /\ gt.pc = "fetch"
    /\ LET r == get_all_stock_data(gt.stock, y)
       IN IF r.ok
          THEN gt' = [gt EXCEPT !.pc = "director", !.yahoo = y,
                                !.market_data = r.val]
          ELSE gt' = [gt EXCEPT !.pc = "idle", !.yahoo = y,
                                !.outcome = "raised", !.error = r.val]
    /\ UNCHANGED <<hedge, direct, trade, cli>>

\* thesis = self.director_agent.run(prompt); return thesis, market_data
DirectorRun(r) ==
    /\ gt.pc = "director"
    /\ LET prompt == [context |-> agent_context(gt.task),
                      template |-> "DIRECTOR_THESIS_PROMPT", task |-> gt.task,
                      stock |-> gt.stock, market_data |-> gt.market_data]
       IN IF r.ok
          THEN gt' = [gt EXCEPT !.pc = "idle", !.prompts = Append(@, prompt),
                                !.outcome = "returned",
                                !.ret = <<r.val, gt.market_data>>]
          ELSE gt' = [gt EXCEPT !.pc = "idle", !.prompts = Append(@, prompt),
                                !.outcome = "raised", !.error = r.val]
    /\ UNCHANGED <<hedge, direct, trade, cli>>

NextThesis ==
    \/ \E t \in Tasks, s \in Symbols : GenerateThesis(t, s)
    \/ \E y \in Yahoo : GetAllStockData(y)
    \/ \E r \in Outcomes(Replies) : DirectorRun(r)

\* direct calls of the director of workers.py
SpecWorkers == Init /\ [][NextThesis]_vars


-----------------------------------------------------------------------------
(* The adapter operations of main.py, called on adapters of their own *)

\* generate_thesis(task, stock), analyze(stock, thesis), assess_risk(stock,
\* thesis, quant_analysis), generate_order(stock, thesis, risk_assessment),
\* make_decision(task, thesis)
Call(op, a) ==
    /\ direct.outcome # "running"
    /\ direct' = [DirectIdle EXCEPT !.op = op, !.args = a,
                                    !.outcome = "running",
                                    !.pc = IF op = "generate_thesis"
                                           THEN "tickr" ELSE "agent"]
    /\ UNCHANGED <<hedge, gt, trade, cli>>

\* a generate_thesis that goes on with "{}" when its fetch raises
FetchSwallowed(r) ==
    /\ direct.pc = "tickr"
    /\ direct' = [direct EXCEPT !.tickr = direct.args.stock,
                                !.fetch = IF r.ok THEN "returned" ELSE "raised",
                                !.market_data = IF r.ok THEN r.val ELSE EmptyJson,
                                !.pc = "agent"]
    /\ UNCHANGED <<hedge, gt, trade, cli>>

\* self.tickr = TickrAgent(stocks=[stock], ...); market_data = self.tickr.run(...)
Fetch(r) ==
    /\ direct.pc = "tickr"
    /\ IF r.ok
       THEN direct' = [direct EXCEPT !.tickr = direct.args.stock,
                                     !.fetch = "returned",
                                     !.market_data = r.val, !.pc = "agent"]
       ELSE direct' = [direct EXCEPT !.tickr = direct.args.stock,
                                     !.fetch = "raised", !.pc = "idle",
                                     !.outcome = "raised", !.error = r.val]
    /\ UNCHANGED <<hedge, gt, trade, cli>>

\* an adapter that runs its stage a second time when the first run raised
InvokeRetry(r) ==
    /\ direct.pc = "agent"
    /\ LET prompt == Format(direct.op, direct.args, direct.market_data)
       IN IF r.ok
          THEN direct' = [direct EXCEPT !.prompts = Append(@, prompt),
                                        !.reply = r.val, !.pc = "idle",
                                        !.outcome = "returned",
                                        !.ret = IF direct.op = "generate_thesis"
                                                THEN <<r.val, direct.market_data>>
                                                ELSE <<r.val>>]
          ELSE IF direct.prompts = << >>
          THEN direct' = [direct EXCEPT !.prompts = Append(@, prompt)]
          ELSE direct' = [direct EXCEPT !.prompts = Append(@, prompt),
                                        !.pc = "idle", !.outcome = "raised",
                                        !.error = r.val]
    /\ UNCHANGED <<hedge, gt, trade, cli>>

\* prompt = <TEMPLATE>.format(...); return self.<agent>.run(prompt)
Invoke(r) ==
    /\ direct.pc = "agent"
    /\ LET prompt == Format(direct.op, direct.args, direct.market_data)
       IN IF r.ok
          THEN direct' = [direct EXCEPT !.prompts = Append(@, prompt),
                                        !.reply = r.val, !.pc = "idle",
                                        !.outcome = "returned",
                                        !.ret = IF direct.op = "generate_thesis"
                                                THEN <<r.val, direct.market_data>>
                                                ELSE <<r.val>>]
          ELSE direct' = [direct EXCEPT !.prompts = Append(@, prompt),
                                        !.pc = "idle", !.outcome = "raised",
                                        !.error = r.val]
    /\ UNCHANGED <<hedge, gt, trade, cli>>

NextAdapters ==
    \/ \E op \in Operations, a \in Arguments : Call(op, a)
    \/ \E r \in Outcomes(MarketData) : Fetch(r)
    \/ \E r \in Outcomes(Replies) : Invoke(r)

\* direct calls of the adapters of main.py
SpecAdapters == Init /\ [][NextAdapters]_vars

-----------------------------------------------------------------------------
(* execute_trade *)

\* execute_trade(unsigned_transaction, request_id), up to the request; the
\* function keeps nothing between calls, so one call is followed
ExecuteTrade(tx, request_id, key) ==
    /\ trade.outcome = "none"
    /\ LET p == payload(tx, request_id, key)
       IN IF p.ok
          THEN trade' = [TradeIdle EXCEPT !.pc = "post", !.tx = tx,
                                         !.request_id = request_id,
                                         !.key = key, !.outcome = "running"]
          ELSE trade' = [TradeIdle EXCEPT !.tx = tx, !.request_id = request_id,
                                         !.key = key, !.outcome = "raised",
                                         !.error = [type |-> "ValueError",
                                                    msg |-> p.val]]
    /\ UNCHANGED <<hedge, gt, direct, cli>>

\* client.post(url, json=payload); resp.raise_for_status(); return
Post(ok) ==
    /\ trade.pc = "post"
    /\ trade' = [trade EXCEPT
                    !.pc = "idle",
                    !.posts = Append(@, payload(trade.tx, trade.request_id,
                                                trade.key).val),
                    !.outcome = IF ok THEN "returned" ELSE "raised",
                    !.error = IF ok THEN NoError
                              ELSE [type |-> "httpx.HTTPError", msg |-> ""]]
    /\ UNCHANGED <<hedge, gt, direct, cli>>

NextTrade ==
    \/ \E tx \in Transactions, request_id \in RequestIds, key \in PrivateKeys :
          ExecuteTrade(tx, request_id, key)
    \/ \E ok \in BOOLEAN : Post(ok)

\* calls of execute_trade
SpecTrade == Init /\ [][NextTrade]_vars

-----------------------------------------------------------------------------
(* cli.py *)

\* the command line's state: no ticker list is given to the orchestrator
InitCli == Init /\ stocks = << >> /\ output_type = "list"

\* _append_recent(task), called directly
CallAppendRecent(task, written) ==
    /\ recent' = AppendRecent(recent, task, written)
    /\ UNCHANGED <<hedge, gt, direct, trade, repl>>

NextRecent == \E task \in RecentTasks, written \in BOOLEAN : CallAppendRecent(task, written)

SpecRecent == InitCli /\ [][NextRecent]_vars

\* line = input().strip() and the branches on it, down to _append_recent(task)
Input(line, written) ==
    /\ repl.pc = "input"
    /\ LET stripped == StripText(line)
           kind == Kind(stripped)
       IN CASE kind = "blank" ->
                 /\ repl' = [repl EXCEPT !.kind = kind]
                 /\ UNCHANGED recent
            [] kind = "quit" ->
                 /\ repl' = [repl EXCEPT !.kind = kind, !.pc = "ended",
                                          !.ended = "quit", !.shown = "Goodbye."]
                 /\ UNCHANGED recent
            [] kind = "help" ->
                 /\ repl' = [repl EXCEPT !.kind = kind, !.shown = "tips"]
                 /\ UNCHANGED recent
            [] kind = "task" ->
                 /\ repl' = [repl EXCEPT !.kind = kind, !.pc = "run",
                                          !.task = stripped, !.runs = "none"]
                 /\ recent' = AppendRecent(recent, stripped, written)
    /\ UNCHANGED <<hedge, gt, direct, trade>>

\* input() raises EOFError or KeyboardInterrupt
InputEnds ==
    /\ repl.pc = "input"
    /\ repl' = [repl EXCEPT !.pc = "ended", !.ended = "end of input",
                             !.shown = "Goodbye."]
    /\ UNCHANGED <<hedge, gt, direct, trade, recent>>

\* a loop that lets the exception of a failed run out
SystemRunUncaught(r) ==
    /\ repl.pc = "run"
    /\ IF r = "run returns"
       THEN repl' = [repl EXCEPT !.pc = "input", !.runs = r, !.shown = "Result"]
       ELSE repl' = [repl EXCEPT !.pc = "ended", !.runs = r, !.ended = r]
    /\ UNCHANGED <<hedge, gt, direct, trade, recent>>

\* system = AutoHedge(); result = system.run(task=task), inside try/except Exception
SystemRun(r) ==
    /\ repl.pc = "run"
    /\ CASE r = "run returns" ->
              repl' = [repl EXCEPT !.pc = "input", !.runs = r, !.shown = "Result"]
         [] r \in {"constructor raises", "run raises"} ->
              repl' = [repl EXCEPT !.pc = "input", !.runs = r, !.shown = "Error"]
         [] r = "KeyboardInterrupt" ->
              repl' = [repl EXCEPT !.pc = "ended", !.runs = r,
                                   !.ended = "interrupt"]
    /\ UNCHANGED <<hedge, gt, direct, trade, recent>>

NextRepl ==
    \/ \E line \in Lines, written \in BOOLEAN : Input(line, written)
    \/ InputEnds
    \/ \E r \in RunOutcomes : SystemRun(r)

SpecRepl == InitCli /\ [][NextRepl]_vars

-----------------------------------------------------------------------------
(* Properties *)

\* the entries the current run() appended
RunLedger == SubSeq(conversation, base + 1, Len(conversation))

Roles(conv) == [k \in 1..Len(conv) |-> conv[k].role]

Ended == outcome \in {"returned", "raised"}

\* no reasoning stage and no market-data fetch of the current run raised
NoExternalFailure == \A k \in 1..Len(calls) : calls[k].ok

\* the stage outputs of the current run, in the order they were produced
StageCalls == SelectSeq(calls, LAMBDA c : c.step \in StageSteps /\ c.ok)

\* the five roles of one ticker, in pipeline order
StageRoles == <<"Trading-Director", "Quant-Analyst", "Risk-Manager",
                "Execution-Agent", "Trading-Director">>

RoleOfStage(step) ==
    CASE step \in {"thesis", "make_decision"} -> "Trading-Director"
      [] step = "analyze" -> "Quant-Analyst"
      [] step = "assess_risk" -> "Risk-Manager"
      [] step = "generate_order" -> "Execution-Agent"

\* the ledger entry that holds the output of the stage call c
EntryOf(c) ==
    [role |-> RoleOfStage(c.step),
     content |-> IF c.step = "thesis"
                 THEN <<"Stock: ">> \o c.prompt.stock \o <<"\nMarket Data: ">>
                        \o c.prompt.market_data \o <<"\nThesis: ">> \o c.val
                 ELSE c.val]

UserEntry == [role |-> "user", content |-> <<"Task: ">> \o frame.task]

\* the stage outputs whose conversation.add is behind the point of control
Recorded == IF pc \in AddSteps THEN Len(StageCalls) - 1 ELSE Len(StageCalls)

\* C1 (P1 ordering): the k-th stage output of a run is the ledger entry k
\* places after the user entry, under the role the pipeline order
\* Director, Quant, Risk, Execution, Director gives that place, and the
\* entries of ticker i come before those of ticker i+1.
C1_Ordering ==
    outcome # "none" =>
        /\ Len(RunLedger) = Recorded + 1
        /\ \A k \in 1..Recorded :
              /\ RunLedger[k + 1].role = StageRoles[((k - 1) % 5) + 1]
              /\ StageCalls[k].i = ((k - 1) \div 5) + 1

\* C2 (Scenario A): a run over one ticker in which no stage and no fetch
\* raises returns normally with the roles user, Trading-Director,
\* Quant-Analyst, Risk-Manager, Execution-Agent, Trading-Director.
C2_ScenarioA ==
    (Len(stocks) = 1 /\ Ended /\ NoExternalFailure) =>
        /\ outcome = "returned"
        /\ Roles(RunLedger) = <<"user">> \o StageRoles

\* a PerTickerResult with every field populated
FullRecord(rec) ==
    \A fld \in {"market_data", "thesis", "quant_analysis", "risk_assessment",
                "order", "decision"} :
        fld \in DOMAIN rec /\ rec[fld] \notin {None, Unset}

C4_Abort ==
    \A k \in 1..Len(calls) :
        ~calls[k].ok =>
            /\ outcome = "raised"
            /\ error = calls[k].val
            /\ Len(logs.logs) < calls[k].i

C4_Witness ==
    /\ outcome = "raised"
    /\ Len(calls) = 2
    /\ calls[2].step = "thesis"
    /\ ~calls[2].ok
    /\ error = "StageError"

\* the fetch of the last generate_thesis of workers.py was made and failed
FetchFailed == gt.yahoo.history = "raises" /\ Strip(gt.stock) # ""

\* C5: a failed market-data fetch is propagated out of generate_thesis, and
\* the thesis stage is not invoked with market data from a failed fetch.
C5_FetchFailureAborts ==
    (FetchFailed /\ gt.pc = "idle") =>
        /\ gt.outcome = "raised"
        /\ gt.prompts = << >>

\* the failed fetch came back as "{}" and the thesis stage was run on it
C5_Witness ==
    /\ FetchFailed
    /\ gt.stock = "AAPL"
    /\ gt.outcome = "returned"
    /\ gt.prompts[1].market_data = EmptyJson
    /\ gt.ret = <<<<"reply">>, EmptyJson>>

\* C6 (partial audit trail): when the run fails, the ledger holds the user
\* entry followed by the entry of every stage that completed before the
\* failure, in order, and nothing else.
C6_PartialAudit ==
    outcome = "raised" =>
        RunLedger = <<UserEntry>> \o [k \in 1..Len(StageCalls) |-> EntryOf(StageCalls[k])]

\* C7: after a failure inside the loop the run attempts nothing further: no
\* stage, no fetch, no append and no result; the next thing that happens is
\* the caller's next run().
C7_NothingAfterFailure ==
    [][raised # "none" =>
          \/ raised' = "none" /\ runs' = runs + 1
          \/ /\ calls' = calls
             /\ conversation' = conversation
             /\ pc' = "none"
             /\ result' = NoResult]_vars

C7_Witness ==
    /\ raised = "DataUnavailableError"
    /\ outcome = "raised"
    /\ Len(stocks) = 2
    /\ frame.i = 1
    /\ Len(calls) = 1

\* C8 (P5 append-only): the ledger's length is the number of appends
\* performed, and every step leaves the old ledger a prefix of the new one.
C8_AppendOnly ==
    /\ [](Len(conversation) = appends)
    /\ [][IsPrefix(conversation, conversation')]_vars

C8_Witness ==
    /\ runs = 2
    /\ appends = 2
    /\ Len(conversation) = 2
    /\ outcome = "raised"

\* C9: the result run() returns renders only the entries appended during
\* that invocation.
C9_LedgerOwnedByRun ==
    outcome = "returned" => result = Render(RunLedger)

C11_UserEntryFirst ==
    outcome # "none" =>
        /\ RunLedger # << >>
        /\ RunLedger[1] = UserEntry
        /\ \A k \in 2..Len(RunLedger) : RunLedger[k].role # "user"

C11_Witness ==
    /\ runs = 2
    /\ Len(calls) = 2
    /\ base = 1
    /\ RunLedger = <<UserEntry>>

\* the current run made the call `step` for the i-th stock
HasCall(step, i) ==
    \E k \in 1..Len(calls) : calls[k].step = step /\ calls[k].i = i /\ calls[k].ok

CallOf(step, i) ==
    calls[CHOOSE k \in 1..Len(calls) :
            calls[k].step = step /\ calls[k].i = i /\ calls[k].ok]

\* the run is over and none of its stages or fetches raised
Succeeded == Ended /\ NoExternalFailure

\* C12: the tickers are processed in list order, one at a time, and every
\* occurrence of a ticker, a repeated one included, gets the fetch and the
\* five stages of its own.
C12_ListOrder ==
    Succeeded =>
        LET fetches == SelectSeq(calls, LAMBDA c : c.step = "tickr")
        IN /\ Len(fetches) = Len(stocks)
           /\ \A i \in 1..Len(stocks) :
                 /\ fetches[i].i = i
                 /\ fetches[i].prompt.stock = Txt(stocks[i])
                 /\ \A st \in StageSteps :
                       Cardinality({k \in 1..Len(calls) :
                                      calls[k].step = st /\ calls[k].i = i}) = 1

\* C13: for every ticker t the quant stage receives t + marketData(t) and
\* thesis(t), the risk stage these and the quant analysis of t, the
\* execution stage t, thesis(t) and the risk assessment of t, the decision
\* stage order(t) + marketData(t) + risk(t) with thesis(t).
C13_DataFlow ==
    Succeeded =>
        \A i \in 1..Len(stocks) :
            /\ \A st \in StageSteps \cup {"tickr"} : HasCall(st, i)
            /\ LET t == Txt(stocks[i])
                   md == CallOf("tickr", i).val
                   th == CallOf("thesis", i).val
                   qa == CallOf("analyze", i).val
                   ra == CallOf("assess_risk", i).val
                   od == CallOf("generate_order", i).val
               IN /\ CallOf("analyze", i).prompt.stock = t \o md
                  /\ CallOf("analyze", i).prompt.thesis = th
                  /\ CallOf("assess_risk", i).prompt.stock = t \o md
                  /\ CallOf("assess_risk", i).prompt.thesis = th
                  /\ CallOf("assess_risk", i).prompt.quant_analysis = qa
                  /\ CallOf("generate_order", i).prompt.stock = t
                  /\ CallOf("generate_order", i).prompt.thesis = th
                  /\ CallOf("generate_order", i).prompt.risk_assessment = ra
                  /\ CallOf("make_decision", i).prompt.task = od \o md \o ra
                  /\ CallOf("make_decision", i).prompt.thesis = th

\* the user task a prompt carries: the task field of the thesis template, the
\* context put in front of a prompt, nothing otherwise
UserTaskOf(prompt) ==
    IF prompt.template = "DIRECTOR_THESIS_PROMPT" THEN prompt.task
    ELSE IF "context" \in DOMAIN prompt THEN prompt.context
    ELSE None

\* C14: every adapter call of a run (generate_thesis, analyze, assess_risk,
\* generate_order, make_decision) receives the task of that run.
C14_TaskHandedOn ==
    Succeeded =>
        \A i \in 1..Len(stocks) : \A st \in StageSteps :
            /\ HasCall(st, i)
            /\ UserTaskOf(CallOf(st, i).prompt) = frame.task

RoleNames == {"user", "Trading-Director", "Quant-Analyst", "Risk-Manager",
              "Execution-Agent"}

Rendering(m, conv) ==
    CASE m = "list" -> return_messages_as_list(conv)
      [] m = "dict" -> return_messages_as_dictionary(conv)
      [] m = "str" -> return_history_as_string(conv)

\* C16: a run that returns normally under one of the output modes "list",
\* "dict", "str" returns exactly the rendering of the ledger that its mode
\* names, and the ledger it renders is the one the run appended to.
C16_OneRendering ==
    (outcome = "returned" /\ output_type \in {"list", "dict", "str"}) =>
        /\ result = [mode |-> output_type,
                     value |-> Rendering(output_type, conversation)]
        /\ Len(conversation) = appends

\* the second run of an object in mode "str" returned the string of both
\* user entries
C16_Witness ==
    /\ outcome = "returned"
    /\ output_type = "str"
    /\ runs = 2
    /\ result.value = <<"user", ": ", "Task: ", "Analyze NVDA", "\n\n",
                        "user", ": ", "Task: ", "Analyze oil">>

\* C18: generate_thesis fetches the market data before it runs the director
\* stage, the thesis prompt holds the task, the stock and that market data,
\* the pair (thesis, market data) is returned, and the stage is not run when
\* the fetch raised.
C18_FetchThenThesis ==
    direct.op = "generate_thesis" =>
        /\ direct.prompts # << >> => direct.fetch = "returned"
        /\ direct.fetch = "raised" =>
              /\ direct.outcome = "raised"
              /\ direct.ret = << >>
        /\ \A k \in 1..Len(direct.prompts) :
              direct.prompts[k] =
                  [template |-> "DIRECTOR_THESIS_PROMPT",
                   task |-> direct.args.task, stock |-> direct.args.stock,
                   market_data |-> direct.market_data]
        /\ direct.outcome = "returned" =>
              direct.ret = <<direct.reply, direct.market_data>>

C18_Witness ==
    /\ direct.op = "generate_thesis"
    /\ direct.outcome = "returned"
    /\ direct.prompts[1].market_data = <<"md">>
    /\ direct.ret = <<<<"reply">>, <<"md">>>>

\* C19: an adapter operation runs its stage at most once per call, and when
\* the stage raises the operation raises that error and returns no value.
C19_NoRetry ==
    /\ Len(direct.prompts) <= 1
    /\ direct.outcome = "returned" => Len(direct.prompts) = 1
    /\ (direct.outcome = "raised" /\ direct.fetch # "raised") =>
          /\ Len(direct.prompts) = 1
          /\ direct.error \in ExternalErrors
          /\ direct.reply = Unset
          /\ direct.ret = << >>

C19_Witness ==
    /\ direct.op = "analyze"
    /\ direct.outcome = "raised"
    /\ direct.error = "StageError"
    /\ Len(direct.prompts) = 1
    /\ direct.ret = << >>

\* the argument of the stage after `step` that takes the output of `step`
PassedOn(c, d) ==
    CASE c.step = "thesis" -> d.prompt.thesis
      [] c.step = "analyze" -> d.prompt.quant_analysis
      [] c.step = "assess_risk" -> d.prompt.risk_assessment
      [] c.step = "generate_order" ->
            SubSeq(d.prompt.task, 1, Len(c.val))
      [] OTHER -> c.val

\* C20: the text a stage returned, the empty one included, is appended to
\* the ledger as it is and is what the next stage of the ticker receives.
C20_OpaqueOutput ==
    /\ \A k \in 1..Recorded :
          \E j \in 2..Len(RunLedger) :
              RunLedger[j].content = EntryOf(StageCalls[k]).content
    /\ \A k \in 1..(Len(StageCalls) - 1) :
          StageCalls[k + 1].i = StageCalls[k].i =>
              PassedOn(StageCalls[k], StageCalls[k + 1]) = StageCalls[k].val

\* C21: a run over a finite ticker list whose stages and fetches all return
\* or raise ends, either Done (every ticker processed, a result returned, no
\* error) or Failed (an error raised, no result), never both; from then on
\* that run invokes nothing and appends nothing.
C21_Terminates ==
    /\ (outcome = "running") ~> Ended
    /\ [](outcome = "returned" =>
            /\ frame.i = Len(stocks) /\ error = "none" /\ raised = "none"
            /\ result = Render(conversation))
    /\ [](outcome = "raised" => error # "none" /\ result = NoResult)
    /\ [][Ended =>
            \/ outcome' = "running" /\ runs' = runs + 1
            \/ /\ outcome' = outcome
               /\ calls' = calls
               /\ conversation' = conversation]_vars

\* a run ended Done
C21_Witness ==
    /\ outcome = "returned"
    /\ runs = 1
    /\ frame.i = Len(stocks)
    /\ result # NoResult

\* C22: no adapter operation changes an attribute of its adapter object:
\* the director's tickr attribute is after every step what it was before.
C22_AdaptersUnchanged == [][tickr' = tickr]_vars

\* the token occurs in the text
Has(text, token) == \E k \in 1..Len(text) : text[k] = token

\* the info (quoteSummary) fetch of the last get_all_stock_data failed
InfoFailed == gt.yahoo.info \in {"rate_limit", "raises", "raises_blank"}

\* C23: get_all_stock_data never raises; for a blank ticker or a failed
\* history fetch it returns "{}"; when only the info fetch failed, the JSON
\* it returns holds the history and a _warning.
C23_Degrades ==
    gt.yahoo # NoYahoo =>
        /\ gt.market_data # Unset
        /\ (Strip(gt.stock) = "" \/ gt.yahoo.history = "raises") =>
              gt.market_data = EmptyJson
        /\ (Strip(gt.stock) # "" /\ gt.yahoo.history = "rows" /\ InfoFailed) =>
              /\ Has(gt.market_data, "rows")
              /\ Has(gt.market_data, "_warning:")

\* the text holds a character that is not base64, or a group cut short
NotBase64(s) == Has(StripText(s), "!") \/ Has(StripText(s), "x")

\* C24: when unsigned_transaction or request_id is blank, the private key is
\* missing or invalid, or the transaction is not valid base64 or not a
\* versioned transaction, execute_trade raises ValueError and posts nothing;
\* what it posts is signed by the wallet key.
C24_NothingSentOnInvalidInput ==
    /\ (/\ trade.outcome # "none"
        /\ \/ Blank(trade.tx)
           \/ Blank(trade.request_id)
           \/ trade.key # "valid"
           \/ NotBase64(trade.tx)
           \/ SelectSeq(trade.tx, LAMBDA c : c \in {"T", "G"}) # <<"T">>)
       => /\ trade.outcome = "raised"
          /\ trade.error.type = "ValueError"
          /\ trade.posts = << >>
    /\ \A k \in 1..Len(trade.posts) :
          trade.posts[k].signedTransaction.signatures = <<"wallet">>

\* the number of calls of the current run made at one of the steps
Count(steps) == Cardinality({k \in 1..Len(calls) : calls[k].step \in steps})

C26_UnknownModeReturnsNone ==
    (Succeeded /\ output_type \notin {"list", "dict", "str"}) =>
        /\ outcome = "returned"
        /\ error = "none"
        /\ result = [mode |-> "None", value |-> None]
        /\ \A i \in 1..Len(stocks) : \A st \in StageSteps : HasCall(st, i)
        /\ Len(RunLedger) = 1 + Cardinality(StageSteps) * Len(stocks)

\* C27: a run over an empty ticker list invokes no stage and no fetch,
\* appends the user entry and nothing else, and returns normally, with the
\* rendering of the ledger under the modes "list", "dict", "str".
C27_EmptyTickerList ==
    (stocks = << >> /\ outcome # "none") =>
        /\ calls = << >>
        /\ RunLedger = <<UserEntry>>
        /\ outcome # "raised"
        /\ error = "none"
        /\ (outcome = "returned" /\ output_type \in {"list", "dict", "str"}) =>
              result = [mode |-> output_type,
                        value |-> Rendering(output_type, conversation)]

C27_Witness ==
    /\ stocks = << >>
    /\ runs = 1
    /\ outcome = "returned"
    /\ output_type = "list"
    /\ result.value = <<<<"user", ": ", "Task: ", "Analyze NVDA">>>>

\* C28: no step of run(), in a run that returns or in one that raises,
\* changes the ticker list, the output mode, the name, the description or
\* the logs record.
C28_OrchestratorUnchanged ==
    [][/\ stocks' = stocks
       /\ output_type' = output_type
       /\ name' = name
       /\ description' = description
       /\ logs'.task = logs.task
       /\ logs'.logs = logs.logs]_vars

\* a second run failed on an orchestrator of two tickers and the logs record
\* is the one __init__ built
C28_Witness ==
    /\ runs = 2
    /\ outcome = "raised"
    /\ Len(stocks) = 2
    /\ logs = [task |-> << >>, logs |-> << >>]
    /\ name = "autohedge"

\* the history the program reads back from the file
History == get_recent_tasks(recent.file)

NoDuplicates(list) ==
    \A j, k \in 1..Len(list) : list[j] = list[k] => j = k

C30_ReplSurvives ==
    /\ [](repl.pc = "ended" =>
            repl.ended \in {"quit", "end of input", "interrupt"})
    /\ [](repl.ended = "quit" => repl.kind = "quit")
    /\ [](repl.pc = "run" =>
            /\ repl.kind = "task"
            /\ recent.task = repl.task
            /\ recent.written =>
                  (History # << >> /\ History[Len(History)] = repl.task))
    /\ [][(repl.pc = "run" /\ repl'.runs \in {"constructor raises", "run raises"})
            => (repl'.pc = "input" /\ repl'.shown = "Error")]_vars
    /\ [][repl.pc = "run" => recent' = recent]_vars
    /\ [][(repl.pc = "input" /\ repl'.kind \in {"blank", "help", "quit"})
            => (repl'.pc # "run" /\ recent' = recent)]_vars

\* the run of the task typed as " b" failed, the task is still the last of
\* the history, and the loop is back at the prompt
C30_Witness ==
    /\ repl.pc = "input"
    /\ repl.runs = "run raises"
    /\ repl.task = <<"b">>
    /\ recent.written
    /\ History = << <<"a">>, <<"b">> >>

====
